---- MODULE Spec2Model ----
(***************************************************************************)
(* A model of larder: the scan command interpreter (src/src/main.rs) and   *)
(* the stock lifecycle queries it runs against the database               *)
(* (src/src/db.rs).                                                        *)
(*                                                                         *)
(* Strings are sequences of one-character strings, so that the mode        *)
(* tokens, the label codes and the names are compared, parsed, formatted   *)
(* and lower-cased character by character.  SQL NULL is 0 for a timestamp  *)
(* and the empty sequence for an ean.                                      *)
(***************************************************************************)
EXTENDS Integers, Sequences, FiniteSets, TLC

\* ------------------------------------------------------------------ bounds
\* The rows of items, the ids drawn for stock rows and the timestamps of a
\* run; the writers of the concurrent specification.
MaxItems == 2
MaxUnits == 2
MaxTime == 4

\* --------------------------------------------------------------- constants
IDLE_TIMEOUT == 120

NULL == 0
NoEan == <<>>

ScanOps == {"None", "Register", "Add", "Remove", "Open", "Finish"}

\* ------------------------------------------------------------------ models
Item(id, name, kind, ean) == [id |-> id, name |-> name, kind |-> kind, ean |-> ean]

NoItem == Item(0, <<>>, "none", NoEan)

Alias(ean, alias_for) == [ean |-> ean, alias_for |-> alias_for]

Stock(id, item_id, added_dt, opened_dt, removed_dt) ==
    [id |-> id, item_id |-> item_id, added_dt |-> added_dt,
     opened_dt |-> opened_dt, removed_dt |-> removed_dt]

\* ----------------------------------------------------------------- strings
LowerChar(c) ==
    CASE c = "T" -> "t"
      [] c = "M" -> "m"
      [] c = "X" -> "x"
      [] c = "Y" -> "y"
      [] OTHER -> c

\* lower(x) of SQL and str::to_lowercase
lower(s) == [i \in 1..Len(s) |-> LowerChar(s[i])]

IsWhite(c) == c = " "

RECURSIVE TrimStart(_)
TrimStart(s) == IF s # <<>> /\ IsWhite(Head(s)) THEN TrimStart(Tail(s)) ELSE s

RECURSIVE TrimEnd(_)
TrimEnd(s) ==
    IF s # <<>> /\ IsWhite(s[Len(s)]) THEN TrimEnd(SubSeq(s, 1, Len(s) - 1)) ELSE s

\* str::trim
trim(s) == TrimEnd(TrimStart(s))

\* name ILIKE '%pat%' for patterns without the wildcards % and _
ilike_contains(name, pat) ==
    \E i \in 0..(Len(name) - Len(pat)) :
        SubSeq(lower(name), i + 1, i + Len(pat)) = lower(pat)

DigitChars == {"0", "1", "2", "3", "4", "5", "6", "7", "8", "9"}

DigitVal(c) ==
    CASE c = "0" -> 0 [] c = "1" -> 1 [] c = "2" -> 2 [] c = "3" -> 3
      [] c = "4" -> 4 [] c = "5" -> 5 [] c = "6" -> 6 [] c = "7" -> 7
      [] c = "8" -> 8 [] c = "9" -> 9

DigitChar(n) ==
    CASE n = 0 -> "0" [] n = 1 -> "1" [] n = 2 -> "2" [] n = 3 -> "3"
      [] n = 4 -> "4" [] n = 5 -> "5" [] n = 6 -> "6" [] n = 7 -> "7"
      [] n = 8 -> "8" [] n = 9 -> "9"

I32_MAX == 2147483647

RECURSIVE DigitsVal(_, _)
DigitsVal(s, acc) ==
    IF s = <<>> THEN acc ELSE DigitsVal(Tail(s), acc * 10 + DigitVal(Head(s)))

\* str::parse::<i32>: an optional sign, then one or more decimal digits, in
\* range.  The result is [ok, val].
parse_i32(s) ==
    LET signed == s # <<>> /\ Head(s) \in {"+", "-"}
        digits == IF signed THEN Tail(s) ELSE s
        wellformed == digits # <<>> /\ Len(digits) <= 10
                      /\ \A i \in 1..Len(digits) : digits[i] \in DigitChars
        mag == DigitsVal(digits, 0)
        val == IF signed /\ Head(s) = "-" THEN 0 - mag ELSE mag
    IN  IF wellformed /\ val <= I32_MAX /\ val >= 0 - I32_MAX - 1
        THEN [ok |-> TRUE, val |-> val]
        ELSE [ok |-> FALSE, val |-> 0]

RECURSIVE NatDigits(_)
NatDigits(n) ==
    IF n < 10 THEN <<DigitChar(n)>> ELSE Append(NatDigits(n \div 10), DigitChar(n % 10))

\* the Display of an i32, as format!("{}") writes it
fmt_i32(n) == IF n < 0 THEN <<"-">> \o NatDigits(0 - n) ELSE NatDigits(n)

\* The index of the first c in s, or Len(s) + 1.
RECURSIVE IndexFrom(_, _, _)
IndexFrom(s, c, i) ==
    IF i > Len(s) \/ s[i] = c THEN i ELSE IndexFrom(s, c, i + 1)

\* try_scan!(line.bytes() => "~{}|{}~", item_id, stock_id): the literal ~, a
\* capture up to the next | (or the end of the input), a capture up to the
\* next ~ (or the end of the input); what follows is not read.
parse_custom_code(line) ==
    IF line = <<>> \/ Head(line) # "~" THEN [some |-> FALSE, item_id |-> 0, stock_id |-> 0]
    ELSE
        LET rest1 == Tail(line)
            bar == IndexFrom(rest1, "|", 1)
            cap1 == SubSeq(rest1, 1, bar - 1)
            rest2 == SubSeq(rest1, bar + 1, Len(rest1))
            til == IndexFrom(rest2, "~", 1)
            cap2 == SubSeq(rest2, 1, til - 1)
            p1 == parse_i32(cap1)
            p2 == parse_i32(cap2)
        IN  IF p1.ok /\ p2.ok
            THEN [some |-> TRUE, item_id |-> p1.val, stock_id |-> p2.val]
            ELSE [some |-> FALSE, item_id |-> 0, stock_id |-> 0]
\* from_item_stock with the two ids in the other order.
label_code_swapped(item_id, stock_id) ==
    <<"~">> \o fmt_i32(stock_id) \o <<"|">> \o fmt_i32(item_id) \o <<"~">>

\* LabelContent::from_item_stock: code = format!("~{}|{}~", item_id, id)
label_code(item_id, stock_id) ==
    <<"~">> \o fmt_i32(item_id) \o <<"|">> \o fmt_i32(stock_id) \o <<"~">>
\* ScanOp::from_str with the arm of "</<" yielding Open.
ScanOp_from_str_swapped(s) ==
    CASE s = <<"?", "?", "?">> -> "None"
      [] s = <<"+", "+", "+">> -> "Register"
      [] s = <<">", ">", ">">> -> "Add"
      [] s = <<"<", "<", "<">> -> "Remove"
      [] s = <<"/", "/", "/">> -> "Open"
      [] s = <<"<", "/", "<">> -> "Open"
      [] OTHER -> "Err"

\* ScanOp::from_str; "Err" is Err(())
ScanOp_from_str(s) ==
    CASE s = <<"?", "?", "?">> -> "None"
      [] s = <<"+", "+", "+">> -> "Register"
      [] s = <<">", ">", ">">> -> "Add"
      [] s = <<"<", "<", "<">> -> "Remove"
      [] s = <<"/", "/", "/">> -> "Open"
      [] s = <<"<", "/", "<">> -> "Finish"
      [] OTHER -> "Err"

CustomToken == <<"~", "+", "~">>

\* ---------------------------------------------------------------- database
\* The database a handler works on: the three relations, the stock id
\* sequence, the latest timestamp now() has issued, and the log of the calls
\* the handler has made so far (a history of the handler, not stored data).
\* Every transaction of the program starts later than the one before it:
\* now() of a transaction that writes is d.now + 1.
\*
\* A database function is the set of the outcomes its call can have:
\* DbErr, the outer Err of its Result (connect_db or the statement failed and
\* nothing was written), and one DbOk for every row a LIMIT 1 query without
\* a deciding order may return.
Db(its, als, stk, seq, t, calls) ==
    [items |-> its, aliases |-> als, stock |-> stk, stock_seq |-> seq,
     now |-> t, calls |-> calls]

\* One call of a handler: the function, its arguments (an ean, a name, an
\* item id, an Option<i32> stock id, the label codes; those it does not take
\* are empty or 0) and its result ("error" is the outer Err).
CallRec(fn, a, res) ==
    [fn |-> fn, code |-> a.code, name |-> a.name, item |-> a.item, unit |-> a.unit,
     labels |-> a.labels, res |-> res]

Args(code, name, item, unit) ==
    [code |-> code, name |-> name, item |-> item, unit |-> unit, labels |-> <<>>]

Log(d, fn, a, res) == [d EXCEPT !.calls = Append(@, CallRec(fn, a, res))]

Found(item) == IF item.id = 0 THEN "none" ELSE "some"

DbOk(d, val) == [d |-> d, ok |-> TRUE, val |-> val]

\* val is a value of the type of the Ok of the function, which nothing reads
DbErr(d, val) == [d |-> d, ok |-> FALSE, val |-> val]

\* Option<i32>
NoId == <<>>

SomeId(n) == <<n>>

\* .first(conn).optional(): any one of the rows, or None
FirstRow(rows) == IF rows = {} THEN {NoItem} ELSE rows

ItemSet(d) == {d.items[i] : i \in 1..Len(d.items)}

\* aliases.find(alias_ean): ean is the primary key
query_ean_by_alias(d, alias_ean) ==
    LET found == {a \in d.aliases : a.ean = alias_ean}
    IN  IF found = {} THEN NoEan ELSE (CHOOSE a \in found : TRUE).alias_for
\* query_item_by_ean without the alias lookup.
query_item_by_ean_direct(d, barcode_ean) ==
    LET a == Args(barcode_ean, <<>>, 0, <<>>)
        found == {i \in ItemSet(d) : i.ean = barcode_ean}
    IN  {DbErr(Log(d, "query_item_by_ean", a, "error"), NoItem)}
        \cup {DbOk(Log(d, "query_item_by_ean", a, Found(item)), item) :
                  item \in FirstRow(found)}


query_item_by_ean(d, barcode_ean) ==
    LET a == Args(barcode_ean, <<>>, 0, <<>>)
        target == query_ean_by_alias(d, barcode_ean)
        ean == IF target = NoEan THEN barcode_ean ELSE target
        found == {i \in ItemSet(d) : i.ean = ean}
    IN  {DbErr(Log(d, "query_item_by_ean", a, "error"), NoItem)}
        \cup {DbOk(Log(d, "query_item_by_ean", a, Found(item)), item) :
                  item \in FirstRow(found)}

query_item_by_name(d, ci_name) ==
    LET a == Args(<<>>, ci_name, 0, <<>>)
        found == {i \in ItemSet(d) : lower(i.name) = lower(ci_name)}
    IN  {DbErr(Log(d, "query_item_by_name", a, "error"), NoItem)}
        \cup {DbOk(Log(d, "query_item_by_name", a, Found(item)), item) :
                  item \in FirstRow(found)}

query_item_by_id(d, id) ==
    LET a == Args(<<>>, <<>>, id, <<>>)
        found == {i \in ItemSet(d) : i.id = id}
    IN  {DbErr(Log(d, "query_item_by_id", a, "error"), NoItem)}
        \cup {DbOk(Log(d, "query_item_by_id", a, Found(item)), item) :
                  item \in FirstRow(found)}

\* val is the set of the candidates; the caller reads them in the order of
\* lower(name).
search_custom_items_by_name(d, ci_name) ==
    LET a == Args(<<>>, ci_name, 0, <<>>)
        found == {i \in ItemSet(d) :
                      ilike_contains(i.name, ci_name) /\ i.kind = "Custom"}
    IN  {DbErr(Log(d, "search_custom_items_by_name", a, "error"), {}),
         DbOk(Log(d, "search_custom_items_by_name", a,
                  IF found = {} THEN "none" ELSE "some"), found)}

\* barcode_ean is NoEan for None
create_item(d, barcode_ean, name) ==
    LET item == Item(Len(d.items) + 1, name,
                     IF barcode_ean # NoEan THEN "Bought" ELSE "Custom",
                     barcode_ean)
        d1 == [d EXCEPT !.items = Append(@, item)]
    IN  {DbErr(Log(d, "create_item", Args(barcode_ean, name, 0, <<>>), "error"), NoItem),
         DbOk(Log(d1, "create_item", Args(barcode_ean, name, item.id, <<>>), "ok"), item)}
\* create_alias with the columns of the new row exchanged.
create_alias_swapped(d, alias_ean, item_ean) ==
    LET a == Args(alias_ean, item_ean, 0, <<>>)
        d1 == [d EXCEPT !.aliases = @ \cup {Alias(item_ean, alias_ean)}]
    IN  {DbErr(Log(d, "create_alias", a, "error"), <<>>)}
        \cup (IF \E x \in d.aliases : x.ean = alias_ean
              THEN {}
              ELSE {DbOk(Log(d1, "create_alias", a, "ok"), item_ean)})

\* aliases has the primary key ean: the insert of a second row for
\* alias_ean is an error.
create_alias(d, alias_ean, item_ean) ==
    LET a == Args(alias_ean, item_ean, 0, <<>>)
        d1 == [d EXCEPT !.aliases = @ \cup {Alias(alias_ean, item_ean)}]
    IN  {DbErr(Log(d, "create_alias", a, "error"), <<>>)}
        \cup (IF \E x \in d.aliases : x.ean = alias_ean
              THEN {}
              ELSE {DbOk(Log(d1, "create_alias", a, "ok"), item_ean)})

\* insert into stock (item_id) values ($1) returning *, in a transaction
\* whose now() is t; val is the new row.
add_to_stock(d, item, t) ==
    LET row == Stock(d.stock_seq + 1, item.id, t, NULL, NULL)
        d1 == [d EXCEPT !.stock = @ \cup {row}, !.stock_seq = @ + 1, !.now = t]
    IN  {DbErr(Log(d, "add_to_stock", Args(<<>>, <<>>, item.id, <<>>), "error"), Stock(0, 0, 0, 0, 0)),
         DbOk(Log(d1, "add_to_stock", Args(<<>>, <<>>, item.id, SomeId(row.id)), "ok"),
              row)}

\* -------------------------------------------------- the stock statements
\* A statement is the set of its outcomes [stock, rows]: the table after it
\* and its row count.
Unopened(stk, item_id) ==
    {s \in stk : s.item_id = item_id /\ s.opened_dt = NULL /\ s.removed_dt = NULL}

IsOpen(stk, item_id) ==
    {s \in stk : s.item_id = item_id /\ s.opened_dt # NULL /\ s.removed_dt = NULL}

\* ... order by added_dt asc limit 1: any row with the least added_dt
OldestAdded(rows) == {r \in rows : \A q \in rows : r.added_dt <= q.added_dt}

\* ... order by opened_dt asc limit 1: any row with the least opened_dt
OldestOpened(rows) == {r \in rows : \A q \in rows : r.opened_dt <= q.opened_dt}

SetRemoved(stk, id, t) ==
    {IF s.id = id THEN [s EXCEPT !.removed_dt = t] ELSE s : s \in stk}
\* The update of open_from_stock that sets added_dt as well.
SetOpened_readded(stk, id, t) ==
    {IF s.id = id THEN [s EXCEPT !.opened_dt = t, !.added_dt = t] ELSE s : s \in stk}


SetOpened(stk, id, t) ==
    {IF s.id = id THEN [s EXCEPT !.opened_dt = t] ELSE s : s \in stk}

NoRows(stk) == {[stock |-> stk, rows |-> 0]}
\* The first statement of remove_from_stock ordered by added_dt desc.
sql_remove_oldest_desc(stk, item_id, t) ==
    LET cand == Unopened(stk, item_id)
        newest == {r \in cand : \A q \in cand : r.added_dt >= q.added_dt}
    IN  IF newest = {} THEN NoRows(stk)
        ELSE {[stock |-> SetRemoved(stk, o.id, t), rows |-> 1] : o \in newest}

\* with oldest as (select id from stock where item_id = $1 and opened_dt is
\* null and removed_dt is null order by added_dt asc limit 1)
\* update stock s set removed_dt = now() from oldest where s.id = oldest.id
sql_remove_oldest(stk, item_id, t) ==
    LET oldest == OldestAdded(Unopened(stk, item_id))
    IN  IF oldest = {} THEN NoRows(stk)
        ELSE {[stock |-> SetRemoved(stk, o.id, t), rows |-> 1] : o \in oldest}
\* The second statement of remove_from_stock without "removed_dt is null".
sql_remove_by_id_again(stk, item_id, stock_id, t) ==
    LET hit == {s \in stk : s.id = stock_id /\ s.item_id = item_id}
    IN  IF hit = {} THEN NoRows(stk)
        ELSE {[stock |-> SetRemoved(stk, stock_id, t), rows |-> Cardinality(hit)]}

\* The second statement of remove_from_stock without "item_id = $2".
sql_remove_by_id_any_item(stk, item_id, stock_id, t) ==
    LET hit == {s \in stk : s.id = stock_id /\ s.removed_dt = NULL}
    IN  IF hit = {} THEN NoRows(stk)
        ELSE {[stock |-> SetRemoved(stk, stock_id, t), rows |-> Cardinality(hit)]}

\* update stock set removed_dt = now()
\* where id = $1 and item_id = $2 and removed_dt is null
sql_remove_by_id(stk, item_id, stock_id, t) ==
    LET hit == {s \in stk : s.id = stock_id /\ s.item_id = item_id
                                /\ s.removed_dt = NULL}
    IN  IF hit = {} THEN NoRows(stk)
        ELSE {[stock |-> SetRemoved(stk, stock_id, t), rows |-> Cardinality(hit)]}
\* The exists query of open_from_stock with "removed_dt is not null".
sql_exists_open_removed(stk, item_id) ==
    {s \in stk : s.item_id = item_id /\ s.opened_dt # NULL /\ s.removed_dt # NULL} # {}

\* select exists(select from stock where item_id = $1
\*               and removed_dt is null and opened_dt is not null)
sql_exists_open(stk, item_id) == IsOpen(stk, item_id) # {}
\* The update of open_from_stock ordered by added_dt desc.
sql_open_oldest_desc(stk, item_id, t) ==
    LET cand == Unopened(stk, item_id)
        newest == {r \in cand : \A q \in cand : r.added_dt >= q.added_dt}
    IN  IF newest = {} THEN NoRows(stk)
        ELSE {[stock |-> SetOpened(stk, o.id, t), rows |-> 1] : o \in newest}

\* with oldest as (... opened_dt is null and removed_dt is null
\* order by added_dt asc limit 1) update stock s set opened_dt = now() ...
sql_open_oldest(stk, item_id, t) ==
    LET oldest == OldestAdded(Unopened(stk, item_id))
    IN  IF oldest = {} THEN NoRows(stk)
        ELSE {[stock |-> SetOpened(stk, o.id, t), rows |-> 1] : o \in oldest}
\* The update of finish_from_stock without "opened_dt is not null".
sql_finish_oldest_unopened(stk, item_id, t) ==
    LET cand == {s \in stk : s.item_id = item_id /\ s.removed_dt = NULL}
        oldest == OldestOpened(cand)
    IN  IF oldest = {} THEN NoRows(stk)
        ELSE {[stock |-> SetRemoved(stk, o.id, t), rows |-> 1] : o \in oldest}

\* with oldest as (... opened_dt is not null and removed_dt is null
\* order by opened_dt asc limit 1) update stock s set removed_dt = now() ...
sql_finish_oldest(stk, item_id, t) ==
    LET oldest == OldestOpened(IsOpen(stk, item_id))
    IN  IF oldest = {} THEN NoRows(stk)
        ELSE {[stock |-> SetRemoved(stk, o.id, t), rows |-> 1] : o \in oldest}

\* The messages of the inner Result of the three stock operations.
NotInStock == "item not in stock"

AlreadyOpen == "found open item in stock"

NotOpen == "item not in stock or not opened"

\* A statement that wrote rows committed at now() = t.
Written(d, upd, t) ==
    IF upd.rows > 0 THEN [d EXCEPT !.stock = upd.stock, !.now = t] ELSE d
\* The row-count test of the three stock operations as "rows >= 0".
Rows_nonneg(d, fn, a, upd, t, message) ==
    LET val == IF upd.rows >= 0 THEN "ok" ELSE message
    IN  DbOk(Log(Written(d, upd, t), fn, a, val), val)

\* Ok(if rows > 0 { Ok(()) } else { Err(anyhow!(message)) }), logged
Rows(d, fn, a, upd, t, message) ==
    LET val == IF upd.rows > 0 THEN "ok" ELSE message
    IN  DbOk(Log(Written(d, upd, t), fn, a, val), val)

\* val is "ok" for Ok(()) and the message for Err(message)
remove_from_stock(d, item, stock_id) ==
    LET a == Args(<<>>, <<>>, item.id, stock_id)
        t == d.now + 1
        upds == IF stock_id = NoId
                THEN sql_remove_oldest(d.stock, item.id, t)
                ELSE sql_remove_by_id(d.stock, item.id, stock_id[1], t)
    IN  {DbErr(Log(d, "remove_from_stock", a, "error"), "error")}
        \cup {Rows(d, "remove_from_stock", a, upd, t, NotInStock) : upd \in upds}
\* open_from_stock without the exists query.
open_from_stock_unchecked(d, item) ==
    LET a == Args(<<>>, <<>>, item.id, <<>>)
        t == d.now + 1
    IN  {DbErr(Log(d, "open_from_stock", a, "error"), "error")}
        \cup {Rows(d, "open_from_stock", a, upd, t, NotInStock) :
                  upd \in sql_open_oldest(d.stock, item.id, t)}


open_from_stock(d, item) ==
    LET a == Args(<<>>, <<>>, item.id, <<>>)
        t == d.now + 1
    IN  {DbErr(Log(d, "open_from_stock", a, "error"), "error")}
        \cup (IF sql_exists_open(d.stock, item.id)
              THEN {DbOk(Log(d, "open_from_stock", a, AlreadyOpen), AlreadyOpen)}
              ELSE {Rows(d, "open_from_stock", a, upd, t, NotInStock) :
                        upd \in sql_open_oldest(d.stock, item.id, t)})

finish_from_stock(d, item) ==
    LET a == Args(<<>>, <<>>, item.id, <<>>)
        t == d.now + 1
    IN  {DbErr(Log(d, "finish_from_stock", a, "error"), "error")}
        \cup {Rows(d, "finish_from_stock", a, upd, t, NotOpen) :
                  upd \in sql_finish_oldest(d.stock, item.id, t)}

\* ------------------------------------------------------ operator and world
\* The ean lookup() answers without asking openfoodfacts.
KleenexEan == <<"4", "0", "6", "1", "4", "6", "3", "7", "3", "2", "9", "5", "8">>

\* The barcodes the scanner reads.
Barcodes == {<<"1", "1">>, KleenexEan}

\* The product names openfoodfacts has.
LookupNames == {<<"t">>, <<"T">>, <<"M">>, <<" ">>}

\* What the operator types at "enter manually" of register.
ManualNames == {<<>>, <<" ", "m">>}

\* What the operator types at "enter name" of create_custom.
CustomNames == {<<>>, <<"T">>, <<"t", "m">>}

\* What the operator types at a [Y/n] prompt.
Answers == {<<>>, <<"Y">>, <<"n">>}

\* What the operator types at "enter number or leave empty ... X to cancel".
Choices == {<<>>, <<"X">>} \cup {fmt_i32(k) : k \in 0..MaxItems}

\* What the operator types at "enter count".
Counts == {<<>>, <<"0">>, <<"2">>}

\* ------------------------------------------------------------- handlers
\* A handler is the set of the outcomes of its run: the database after it,
\* "ok" for Ok or the error of its Err, and the item it returns (NoItem for
\* None and for ()).
H(d, res, item) == [d |-> d, res |-> res, item |-> item]

Fail(d, err) == H(d, err, NoItem)

DbError == "db error"

LookupError == "Could not load product"

NoName == "no name provided"

CustomCollision == "name collision with custom item"

Unresolved == "Unresolved name conflict"

Aborted == "aborted"

NothingToAdd == "nothing to add to stock"

PrintError == "print error"

\* A panic of the main thread: the process ends.
Panicked == "panicked"


\* !s.is_empty() && s.to_lowercase() != "y"
Declined(s) == s # <<>> /\ lower(s) # <<"y">>

\* lookup(ean): val is [some, name], Option<String>
lookup(d, ean) ==
    LET a == Args(ean, <<>>, 0, <<>>)
        none == DbOk(Log(d, "lookup", a, "none"), [some |-> FALSE, name |-> <<>>])
    IN  IF ean = KleenexEan THEN {none}
        ELSE {DbErr(Log(d, "lookup", a, "error"), [some |-> FALSE, name |-> <<>>]), none}
             \cup {DbOk(Log(d, "lookup", Args(ean, n, 0, <<>>), "some"),
                        [some |-> TRUE, name |-> n]) : n \in LookupNames}

add(d, item) ==
    {IF r.ok THEN H(r.d, "ok", item) ELSE Fail(r.d, DbError) :
         r \in add_to_stock(d, item, d.now + 1)}

remove(d, item) ==
    {IF r.ok THEN H(r.d, "ok", NoItem) ELSE Fail(r.d, DbError) :
         r \in remove_from_stock(d, item, NoId)}

open(d, item) ==
    {IF r.ok THEN H(r.d, "ok", NoItem) ELSE Fail(r.d, DbError) :
         r \in open_from_stock(d, item)}

finish(d, item) ==
    {IF r.ok THEN H(r.d, "ok", NoItem) ELSE Fail(r.d, DbError) :
         r \in finish_from_stock(d, item)}
\* register creating the item whether or not an item has the name.
register_named_duplicate(d, barcode, name) ==
    UNION {
        IF ~q.ok THEN {Fail(q.d, DbError)}
        ELSE {IF c.ok THEN H(c.d, "ok", c.val) ELSE Fail(c.d, DbError) :
                  c \in create_item(q.d, barcode, name)}
        : q \in query_item_by_name(d, name)}

\* register from query_item_by_name on: the collision check, then the alias
\* or the new item.
register_named(d, barcode, name) ==
    UNION {
        IF ~q.ok THEN {Fail(q.d, DbError)}
        ELSE IF q.val # NoItem
        THEN IF q.val.ean = NoEan THEN {Fail(q.d, CustomCollision)}
             ELSE UNION {
                 IF Declined(s) THEN {Fail(q.d, Unresolved)}
                 ELSE {IF c.ok THEN H(c.d, "ok", q.val) ELSE Fail(c.d, DbError) :
                           c \in create_alias(q.d, barcode, q.val.ean)}
                 : s \in Answers}
        ELSE {IF c.ok THEN H(c.d, "ok", c.val) ELSE Fail(c.d, DbError) :
                  c \in create_item(q.d, barcode, name)}
        : q \in query_item_by_name(d, name)}
\* register without the return for an item that exists.
register_unchecked(d, barcode, existing) ==
    UNION {
        IF ~l.ok THEN {Fail(l.d, LookupError)}
        ELSE UNION {
            IF trim(s) = <<>> THEN {Fail(l.d, NoName)}
            ELSE register_named(l.d, barcode, trim(s))
            : s \in IF l.val.some THEN {l.val.name} ELSE ManualNames}
        : l \in lookup(d, barcode)}


register(d, barcode, existing) ==
    IF existing # NoItem THEN {H(d, "ok", NoItem)}
    ELSE UNION {
        IF ~l.ok THEN {Fail(l.d, LookupError)}
        ELSE UNION {
            \* or_else: nothing typed is None; and_then: trimmed, empty is None
            IF trim(s) = <<>> THEN {Fail(l.d, NoName)}
            ELSE register_named(l.d, barcode, trim(s))
            : s \in IF l.val.some THEN {l.val.name} ELSE ManualNames}
        : l \in lookup(d, barcode)}
\* The arm of ScanOp::Add adding a unit, after register, only to an item
\* whose ean is the barcode.
scanned_add_created_only(d, barcode, existing) ==
    IF existing = NoItem
    THEN UNION {
        IF g.res # "ok" THEN {Fail(g.d, g.res)}
        ELSE IF g.item = NoItem \/ g.item.ean # barcode THEN {H(g.d, "ok", NoItem)}
        ELSE add(g.d, g.item)
        : g \in register(d, barcode, existing)}
    ELSE add(d, existing)


scanned_add(d, barcode, existing) ==
    IF existing = NoItem
    THEN UNION {
        IF g.res # "ok" THEN {Fail(g.d, g.res)}
        ELSE IF g.item = NoItem THEN {H(g.d, "ok", NoItem)}
        ELSE add(g.d, g.item)
        : g \in register(d, barcode, existing)}
    ELSE add(d, existing)
\* scanned with the arm of ScanOp::None calling register.
scanned_idle_registers(d, op, barcode) ==
    UNION {
        IF ~e.ok THEN {Fail(e.d, DbError)}
        ELSE CASE op \in {"None", "Register"} ->
                      {H(g.d, g.res, NoItem) : g \in register(e.d, barcode, e.val)}
               [] op = "Add" ->
                      {H(g.d, g.res, NoItem) : g \in scanned_add(e.d, barcode, e.val)}
               [] op = "Remove" ->
                      IF e.val = NoItem THEN {H(e.d, "ok", NoItem)} ELSE remove(e.d, e.val)
               [] op = "Open" ->
                      IF e.val = NoItem THEN {H(e.d, "ok", NoItem)} ELSE open(e.d, e.val)
               [] op = "Finish" ->
                      IF e.val = NoItem THEN {H(e.d, "ok", NoItem)} ELSE finish(e.d, e.val)
        : e \in query_item_by_ean(d, barcode)}

\* scanned with the arms of Remove, Open and Finish registering a barcode
\* without an item, as the arm of Add does.
scanned_unresolved_registers(d, op, barcode) ==
    UNION {
        IF ~e.ok THEN {Fail(e.d, DbError)}
        ELSE CASE op = "None" -> {H(e.d, "ok", NoItem)}
               [] op = "Register" ->
                      {H(g.d, g.res, NoItem) : g \in register(e.d, barcode, e.val)}
               [] op = "Add" ->
                      {H(g.d, g.res, NoItem) : g \in scanned_add(e.d, barcode, e.val)}
               [] op = "Remove" ->
                      IF e.val = NoItem
                      THEN {H(g.d, g.res, NoItem) : g \in register(e.d, barcode, e.val)}
                      ELSE remove(e.d, e.val)
               [] op = "Open" ->
                      IF e.val = NoItem
                      THEN {H(g.d, g.res, NoItem) : g \in register(e.d, barcode, e.val)}
                      ELSE open(e.d, e.val)
               [] op = "Finish" ->
                      IF e.val = NoItem
                      THEN {H(g.d, g.res, NoItem) : g \in register(e.d, barcode, e.val)}
                      ELSE finish(e.d, e.val)
        : e \in query_item_by_ean(d, barcode)}


scanned(d, op, barcode) ==
    UNION {
        IF ~e.ok THEN {Fail(e.d, DbError)}
        ELSE CASE op = "None" -> {H(e.d, "ok", NoItem)}
               [] op = "Register" ->
                      {H(g.d, g.res, NoItem) : g \in register(e.d, barcode, e.val)}
               [] op = "Add" ->
                      {H(g.d, g.res, NoItem) : g \in scanned_add(e.d, barcode, e.val)}
               [] op = "Remove" ->
                      IF e.val = NoItem THEN {H(e.d, "ok", NoItem)} ELSE remove(e.d, e.val)
               [] op = "Open" ->
                      IF e.val = NoItem THEN {H(e.d, "ok", NoItem)} ELSE open(e.d, e.val)
               [] op = "Finish" ->
                      IF e.val = NoItem THEN {H(e.d, "ok", NoItem)} ELSE finish(e.d, e.val)
        : e \in query_item_by_ean(d, barcode)}

remove_custom(d, item_id, stock_id) ==
    UNION {
        IF ~q.ok THEN {Fail(q.d, DbError)}
        ELSE IF q.val = NoItem THEN {H(q.d, "ok", NoItem)}
        ELSE {IF r.ok THEN H(r.d, "ok", NoItem) ELSE Fail(r.d, DbError) :
                  r \in remove_from_stock(q.d, q.val, SomeId(stock_id))}
        : q \in query_item_by_id(d, item_id)}

\* str::parse of an unsigned integer type with the greatest value max
parse_unsigned(s, max) ==
    LET p == parse_i32(s)
    IN  IF p.ok /\ Head(s) # "-" /\ p.val <= max THEN p ELSE [ok |-> FALSE, val |-> 0]

U8_MAX == 255

\* The order of the characters of the names, for order(lower(name)).
CharRank(c) ==
    CASE c = " " -> 0
      [] c = "m" -> 1
      [] c = "t" -> 2
      [] OTHER -> 3

RECURSIVE SeqLess(_, _)
SeqLess(a, b) ==
    IF b = <<>> THEN FALSE
    ELSE IF a = <<>> THEN TRUE
    ELSE IF CharRank(Head(a)) # CharRank(Head(b)) THEN CharRank(Head(a)) < CharRank(Head(b))
    ELSE SeqLess(Tail(a), Tail(b))

\* The candidates as the Vec the query loads: ordered by lower(name).
RECURSIVE SortByName(_)
SortByName(cands) ==
    IF cands = {} THEN <<>>
    ELSE LET first == CHOOSE c \in cands :
                          \A o \in cands : ~SeqLess(lower(o.name), lower(c.name))
         IN  <<first>> \o SortByName(cands \ {first})

Created(d, name) ==
    {IF c.ok THEN H(c.d, "ok", c.val) ELSE Fail(c.d, DbError) :
         c \in create_item(d, NoEan, name)}

\* create_custom, lines 124-174: the item the units are added to
custom_item(d, name, found) ==
    LET candidates == SortByName(found)
    IN  IF Len(candidates) = 1 /\ lower(candidates[1].name) = lower(name)
        THEN {H(d, "ok", candidates[1])}
        ELSE IF candidates # <<>>
        THEN UNION {
            IF choice = <<>> THEN Created(d, name)
            ELSE IF lower(choice) = <<"x">> THEN {Fail(d, Aborted)}
            ELSE LET idx == parse_unsigned(choice, I32_MAX)
                 IN  IF ~idx.ok \/ idx.val = 0 \/ idx.val > Len(candidates)
                     THEN {}    \* invalid input, try again
                     ELSE {H(d, "ok", candidates[idx.val])}
            : choice \in Choices}
        ELSE UNION {
            IF Declined(s) THEN {Fail(d, Aborted)} ELSE Created(d, name)
            : s \in Answers}

\* print_custom_item_labels: no printer, or a print job that fails, is an
\* Err; generate_label, called for every label, unwraps the results of the
\* rendering, so its failure is a panic.
print_custom_item_labels(d, labels) ==
    LET a == [Args(<<>>, <<>>, 0, <<>>) EXCEPT !.labels = labels]
    IN  {DbErr(Log(d, "print_custom_item_labels", a, "error"), NoItem),
         DbErr(Log(d, "print_custom_item_labels", a, Panicked), NoItem),
         DbOk(Log(d, "print_custom_item_labels", a, "ok"), NoItem)}

\* for i in 0..count { add_to_stock(&item, Some(conn))?; labels.push(..) }
\* The outcomes are [d, ok, labels].
RECURSIVE add_all(_, _, _, _, _)
add_all(d, item, t, count, labels) ==
    IF count = 0 THEN {[d |-> d, ok |-> TRUE, labels |-> labels]}
    ELSE UNION {
        IF ~r.ok THEN {[d |-> r.d, ok |-> FALSE, labels |-> labels]}
        ELSE add_all(r.d, item, t, count - 1,
                     Append(labels, label_code(r.val.item_id, r.val.id)))
        : r \in add_to_stock(d, item, t)}
\* A transaction whose rows stay when it ends with an error.
RolledBack_kept(d0, d) == d

\* What a rolled back transaction leaves of d, begun at d0: its rows are
\* gone, the ids its inserts drew from the sequence are not given back.
RolledBack(d0, d) == [d EXCEPT !.stock = d0.stock, !.now = d0.now]

\* create_custom, lines 193-203: connect_db, then conn.transaction(..)
custom_transaction(d, item, count) ==
    {Fail(d, DbError)}
    \cup UNION {
        IF ~a.ok THEN {Fail(RolledBack(d, a.d), DbError)}
        ELSE {IF p.ok THEN H(p.d, "ok", NoItem)
              ELSE IF p.d.calls[Len(p.d.calls)].res = Panicked
              THEN Fail(RolledBack(d, p.d), Panicked)
              ELSE Fail(RolledBack(d, p.d), PrintError) :
                  p \in print_custom_item_labels(a.d, a.labels)}
        : a \in add_all(d, item, d.now + 1, count, <<>>)}

\* create_custom, lines 175-192: the count
custom_count(d, item) ==
    UNION {
        IF resp = <<>> THEN custom_transaction(d, item, 1)
        ELSE LET count == parse_unsigned(resp, U8_MAX)
             IN  IF ~count.ok THEN {}    \* invalid input, try again
                 ELSE IF count.val = 0 THEN {Fail(d, NothingToAdd)}
                 ELSE custom_transaction(d, item, count.val)
        : resp \in Counts}

create_custom(d) ==
    UNION {
        IF name = <<>> THEN {Fail(d, NoName)}
        ELSE UNION {
            IF ~c.ok THEN {Fail(c.d, DbError)}
            ELSE UNION {
                IF i.res # "ok" THEN {i} ELSE custom_count(i.d, i.item)
                : i \in custom_item(c.d, name, c.val)}
            : c \in search_custom_items_by_name(d, name)}
        : name \in CustomNames}

\* ------------------------------------------------------------ interpreter
VARIABLES
    op,         \* main: the scan op
    items,      \* table items, in the order of the ids
    aliases,    \* table aliases
    stock,      \* table stock
    stock_seq,  \* the last id drawn for a stock row
    now,        \* the latest timestamp a committed row carries
    wpc,        \* a second writer's place in its stock operation
    wcall,      \* the stock operation of a writer and its result
    pc,         \* main: blocked in recv_timeout, or handling a scan string
    cur,        \* main: the scan string it handles
    queue,      \* the channel from the input thread to main
    since,      \* the time since the input thread sent the last scan string
    waited,     \* the time main has been blocked in this recv_timeout
    conn,       \* the input thread runs and holds the sender of the channel
    sent,       \* the scan strings the input thread has sent, where numbered
    done        \* the number of the scan string main handled last

vars == <<op, items, aliases, stock, stock_seq, now, wpc, wcall,
          pc, cur, queue, since, waited, conn, sent, done>>

\* The threads and the clock.
tvars == <<pc, cur, queue, since, waited>>

\* The input thread and the count of the scan strings.
cvars == <<conn, sent, done>>

\* A scan string in the channel, with the time between the scan string
\* before it and itself, and its number among the scan strings sent (0 where
\* they are not numbered).
Sent(line, gap, n) == [line |-> line, gap |-> gap, n |-> n]

NoCur == Sent(<<>>, 0, 0)

\* main starts and calls recv_timeout; nothing has been scanned.
TimeInit ==
    /\ pc = "recv"
    /\ cur = NoCur
    /\ queue = <<>>
    /\ since = 0
    /\ waited = 0
    /\ conn = TRUE
    /\ sent = <<>>
    /\ done = 0

\* Two processes that run the stock operations of db.rs against one
\* database, one operation each.
Writers == {1, 2}

NoCall == [fn |-> "none", item |-> 0, unit |-> NoId, res |-> "none", rows |-> {}]

\* The scan strings the input thread sends.
LabelCodes == {label_code(i, u) : i \in 1..MaxItems, u \in 1..MaxUnits}

ModeTokens == {<<"?", "?", "?">>, <<"+", "+", "+">>, <<">", ">", ">">>,
               <<"<", "<", "<">>, <<"/", "/", "/">>, <<"<", "/", "<">>}

Lines == ModeTokens \cup {CustomToken} \cup LabelCodes \cup Barcodes

InBounds(d) ==
    /\ Len(d.items) <= MaxItems
    /\ d.stock_seq <= MaxUnits
    /\ d.now <= MaxTime
\* main with a failed scan resetting the scan op.
handle_line_reset(d, mode, line) ==
    LET new_op == ScanOp_from_str(line)
        code == parse_custom_code(line)
    IN  IF new_op # "Err"
        THEN {[d |-> d, res |-> "ok", op |-> new_op, kind |-> "mode"]}
        ELSE IF line = CustomToken
        THEN {[d |-> h.d, res |-> h.res, op |-> mode, kind |-> "custom"] :
                  h \in create_custom(d)}
        ELSE IF code.some
        THEN {[d |-> h.d, res |-> h.res, op |-> mode, kind |-> "code"] :
                  h \in remove_custom(d, code.item_id, code.stock_id)}
        ELSE {[d |-> h.d, res |-> h.res,
               op |-> IF h.res = "ok" THEN mode ELSE "None", kind |-> "barcode"] :
                  h \in scanned(d, mode, line)}

\* main with the label code branch taken in the scan op Remove only.
handle_line_code_in_remove(d, mode, line) ==
    LET new_op == ScanOp_from_str(line)
        code == parse_custom_code(line)
    IN  IF new_op # "Err"
        THEN {[d |-> d, res |-> "ok", op |-> new_op, kind |-> "mode"]}
        ELSE IF line = CustomToken
        THEN {[d |-> h.d, res |-> h.res, op |-> mode, kind |-> "custom"] :
                  h \in create_custom(d)}
        ELSE IF code.some /\ mode = "Remove"
        THEN {[d |-> h.d, res |-> h.res, op |-> mode, kind |-> "code"] :
                  h \in remove_custom(d, code.item_id, code.stock_id)}
        ELSE {[d |-> h.d, res |-> h.res, op |-> mode, kind |-> "barcode"] :
                  h \in scanned(d, mode, line)}

\* main, lines 69-87: Ok(line).  The outcomes are [d, res, op, kind].
handle_line(d, mode, line) ==
    LET new_op == ScanOp_from_str(line)
        code == parse_custom_code(line)
    IN  IF new_op # "Err"
        THEN {[d |-> d, res |-> "ok", op |-> new_op, kind |-> "mode"]}
        ELSE IF line = CustomToken
        THEN {[d |-> h.d, res |-> h.res, op |-> mode, kind |-> "custom"] :
                  h \in create_custom(d)}
        ELSE IF code.some
        THEN {[d |-> h.d, res |-> h.res, op |-> mode, kind |-> "code"] :
                  h \in remove_custom(d, code.item_id, code.stock_id)}
        ELSE {[d |-> h.d, res |-> h.res, op |-> mode, kind |-> "barcode"] :
                  h \in scanned(d, mode, line)}

Init ==
    /\ op = "None"
    /\ items = <<>>
    /\ aliases = {}
    /\ stock = {}
    /\ stock_seq = 0
    /\ now = 0
    /\ wpc = [w \in Writers |-> "start"]
    /\ wcall = [w \in Writers |-> NoCall]
    /\ TimeInit

\* main after a handler returned: the loop goes on with the next
\* recv_timeout, whether the result is Ok or Err; a panic ends the process.
after_handler(res) == IF res = Panicked THEN "stopped" ELSE "recv"

\* rx.recv_timeout(idle_timeout) returns Ok(line)
Recv ==
    \E line \in Lines :
        \E out \in handle_line(Db(items, aliases, stock, stock_seq, now, <<>>), op, line) :
            /\ pc = "recv"
            /\ InBounds(out.d)
            /\ pc' = after_handler(out.res)
            /\ op' = out.op
            /\ items' = out.d.items
            /\ aliases' = out.d.aliases
            /\ stock' = out.d.stock
            /\ stock_seq' = out.d.stock_seq
            /\ now' = out.d.now
            /\ UNCHANGED <<wpc, wcall, cur, queue, since, waited, cvars>>

\* The arm of the timeout with the scan op kept.
timeout_op_kept(mode) == mode

\* Err(RecvTimeoutError::Timeout): if op != ScanOp::None { op = ScanOp::None }
timeout_op(mode) == IF mode # "None" THEN "None" ELSE mode

\* rx.recv_timeout(idle_timeout) returns Err(Timeout)
Timeout ==
    /\ pc = "recv"
    /\ queue = <<>>
    /\ conn
    /\ op' = timeout_op(op)
    /\ UNCHANGED <<items, aliases, stock, stock_seq, now, wpc, wcall, tvars, cvars>>

Next == Recv \/ Timeout

Spec == Init /\ [][Next]_vars

\* ------------------------------------------------- two concurrent writers
\* Every statement is atomic and the statements of the two writers
\* interleave.  open_from_stock is two statements: the exists query (lines
\* 176-188) and the update (lines 190-206).
CurDb == Db(items, aliases, stock, stock_seq, now, <<>>)

\* The ids of the rows a statement wrote.
Changed(stk, stk2) == {u.id : u \in stk2 \ stk}

WCall(fn, item_id, unit, res, rows) ==
    [fn |-> fn, item |-> item_id, unit |-> unit, res |-> res, rows |-> rows]

\* A catalog of two bought items and up to MaxUnits units of the first,
\* the oldest of them opened or not: states the interpreter reaches.
InitConc ==
    /\ op = "None"
    /\ items = <<Item(1, <<"t">>, "Bought", <<"1", "1">>),
                 Item(2, <<"m">>, "Bought", KleenexEan)>>
    /\ aliases = {}
    /\ \E k \in 0..MaxUnits : \E opened \in {0, 1} :
           /\ opened <= k
           /\ stock = {Stock(j, 1, j, IF j <= opened THEN k + 1 ELSE NULL, NULL) :
                           j \in 1..k}
           /\ stock_seq = k
           /\ now = k + opened
    /\ wpc = [w \in Writers |-> "start"]
    /\ wcall = [w \in Writers |-> NoCall]
    /\ TimeInit

WDone(w, d, call) ==
    /\ stock' = d.stock
    /\ stock_seq' = d.stock_seq
    /\ now' = d.now
    /\ wpc' = [wpc EXCEPT ![w] = "done"]
    /\ wcall' = [wcall EXCEPT ![w] = call]
    /\ UNCHANGED <<op, items, aliases, tvars, cvars>>

WAdd(w) ==
    /\ wpc[w] = "start"
    /\ \E i \in 1..Len(items) : \E r \in add_to_stock(CurDb, items[i], now + 1) :
           WDone(w, r.d, WCall("add_to_stock", i, NoId, IF r.ok THEN "ok" ELSE "error",
                               Changed(stock, r.d.stock)))

WRemove(w) ==
    /\ wpc[w] = "start"
    /\ \E i \in 1..Len(items) : \E sid \in {NoId} \cup {SomeId(u) : u \in 1..stock_seq} :
           \E r \in remove_from_stock(CurDb, items[i], sid) :
               WDone(w, r.d, WCall("remove_from_stock", i, sid, r.val,
                                   Changed(stock, r.d.stock)))

WFinish(w) ==
    /\ wpc[w] = "start"
    /\ \E i \in 1..Len(items) : \E r \in finish_from_stock(CurDb, items[i]) :
           WDone(w, r.d, WCall("finish_from_stock", i, NoId, r.val,
                               Changed(stock, r.d.stock)))

\* open_from_stock, lines 176-188: the exists query and the early return
WOpenCheck(w) ==
    /\ wpc[w] = "start"
    /\ \E i \in 1..Len(items) :
           IF sql_exists_open(stock, i)
           THEN WDone(w, CurDb, WCall("open_from_stock", i, NoId, AlreadyOpen, {}))
           ELSE /\ wpc' = [wpc EXCEPT ![w] = "checked"]
                /\ wcall' = [wcall EXCEPT
                                ![w] = WCall("open_from_stock", i, NoId, "pending", {})]
                /\ UNCHANGED <<op, items, aliases, stock, stock_seq, now, tvars, cvars>>

\* open_from_stock, lines 190-211: the update and its row count
WOpenUpdate(w) ==
    /\ wpc[w] = "checked"
    /\ \E upd \in sql_open_oldest(stock, wcall[w].item, now + 1) :
           LET r == Rows(CurDb, "open_from_stock", Args(<<>>, <<>>, wcall[w].item, <<>>),
                         upd, now + 1, NotInStock)
           IN  WDone(w, r.d, WCall("open_from_stock", wcall[w].item, NoId, r.val,
                                   Changed(stock, r.d.stock)))

NextConc ==
    \E w \in Writers :
        \/ WAdd(w)
        \/ WRemove(w)
        \/ WFinish(w)
        \/ WOpenCheck(w)
        \/ WOpenUpdate(w)

SpecConc == InitConc /\ [][NextConc]_vars

\* ------------------------------------------------ the threads and time
\* The input thread sends scan strings into the channel whatever main does;
\* main is blocked in rx.recv_timeout(idle_timeout), which returns a scan
\* string as soon as the channel has one and Err(Timeout) when it has been
\* blocked for IDLE_TIMEOUT, or it handles a scan string, which takes the
\* time the database, openfoodfacts, the printer and the operator at a
\* prompt take.  Time passes in steps of Tick.
\* The channel hands out the scan strings oldest first; here the newest.
recv_timeout_newest(q) == [msg |-> q[Len(q)], rest |-> SubSeq(q, 1, Len(q) - 1)]

\* rx.recv_timeout(idle_timeout) returns Ok(msg) from a channel that is not
\* empty: the scan string sent first, and the others stay.
recv_timeout(q) == [msg |-> Head(q), rest |-> Tail(q)]

\* tx.send(linebuf.clone()): the scan string is the last of the channel.
send(q, msg) == Append(q, msg)

Tick == 60

MaxQueue == 1

\* The scan strings of the timed runs.
TimedLines == {<<">", ">", ">">>, <<"<", "<", "<">>} \cup Barcodes

InitTime == Init

\* keyinput.rs, line 67: tx.send(linebuf.clone()).  A scan string that
\* would arrive at the very end of the timeout arrives after it.
TArrive ==
    /\ Len(queue) < MaxQueue
    /\ ~(pc = "recv" /\ queue = <<>> /\ waited >= IDLE_TIMEOUT)
    /\ conn
    /\ \E line \in TimedLines : queue' = send(queue, Sent(line, since, 0))
    /\ since' = 0
    /\ UNCHANGED <<op, items, aliases, stock, stock_seq, now, wpc, wcall, pc, cur, waited, cvars>>

\* Time passes, unless recv_timeout is about to return.
TTick ==
    /\ ~(pc = "recv" /\ queue # <<>>)
    /\ ~(pc = "recv" /\ waited >= IDLE_TIMEOUT)
    /\ since' = IF since + Tick >= IDLE_TIMEOUT THEN IDLE_TIMEOUT ELSE since + Tick
    /\ waited' = IF pc # "recv" THEN waited
                 ELSE IF waited + Tick >= IDLE_TIMEOUT THEN IDLE_TIMEOUT
                 ELSE waited + Tick
    /\ since' # since \/ waited' # waited
    /\ UNCHANGED <<op, items, aliases, stock, stock_seq, now, wpc, wcall, pc, cur, queue, cvars>>

\* recv_timeout returns Ok(line) with a mode token: lines 71-75, and the
\* next recv_timeout begins.
TRecvMode ==
    /\ pc = "recv"
    /\ queue # <<>>
    /\ recv_timeout(queue).msg.line \in ModeTokens
    /\ \E out \in handle_line(CurDb, op, recv_timeout(queue).msg.line) : op' = out.op
    /\ queue' = recv_timeout(queue).rest
    /\ waited' = 0
    /\ done' = recv_timeout(queue).msg.n
    /\ UNCHANGED <<items, aliases, stock, stock_seq, now, wpc, wcall, pc, cur, since,
                   conn, sent>>

\* recv_timeout returns Ok(line) with another scan string: main enters its
\* handler with the scan op it has.
TRecvLine ==
    /\ pc = "recv"
    /\ queue # <<>>
    /\ recv_timeout(queue).msg.line \notin ModeTokens
    /\ pc' = "handle"
    /\ cur' = recv_timeout(queue).msg
    /\ queue' = recv_timeout(queue).rest
    /\ waited' = 0
    /\ UNCHANGED <<op, items, aliases, stock, stock_seq, now, wpc, wcall, since, cvars>>

\* The handler returns and the next recv_timeout begins.
TDone ==
    /\ pc = "handle"
    /\ \E out \in handle_line(CurDb, op, cur.line) :
           /\ InBounds(out.d)
           /\ op' = out.op
           /\ items' = out.d.items
           /\ aliases' = out.d.aliases
           /\ stock' = out.d.stock
           /\ stock_seq' = out.d.stock_seq
           /\ now' = out.d.now
           /\ pc' = after_handler(out.res)
    /\ cur' = NoCur
    /\ done' = cur.n
    /\ UNCHANGED <<wpc, wcall, queue, since, waited, conn, sent>>

\* recv_timeout returns Err(Timeout): lines 88-93, and the next
\* recv_timeout begins.
TTimeout ==
    /\ pc = "recv"
    /\ queue = <<>>
    /\ waited >= IDLE_TIMEOUT
    /\ op' = timeout_op(op)
    /\ waited' = 0
    /\ UNCHANGED <<items, aliases, stock, stock_seq, now, wpc, wcall, pc, cur, queue, since, cvars>>

NextTime == TArrive \/ TTick \/ TRecvMode \/ TRecvLine \/ TDone \/ TTimeout

SpecTime == InitTime /\ [][NextTime]_vars

\* ------------------------------------ the input thread's end and main's
\* The input thread, the channel and main without the clock: the scan
\* strings are numbered as they are sent, the input thread may end, and
\* main ends when recv_timeout answers Disconnected or a handler panics.
MaxSent == 3

\* The scan strings of these runs.
ChanLines == {<<"<", "<", "<">>, CustomToken, <<"1", "1">>}

InitChan == Init

\* keyinput.rs, line 67: tx.send(linebuf.clone())
CSend ==
    /\ conn
    /\ Len(sent) < MaxSent
    /\ \E line \in ChanLines :
           /\ sent' = Append(sent, line)
           /\ queue' = send(queue, Sent(line, 0, Len(sent) + 1))
    /\ UNCHANGED <<op, items, aliases, stock, stock_seq, now, wpc, wcall,
                   pc, cur, since, waited, conn, done>>

\* The input thread ends: device.fetch_events().unwrap() panics when the
\* device is gone, and the sender of the channel is dropped with the thread.
CInputEnds ==
    /\ conn
    /\ conn' = FALSE
    /\ UNCHANGED <<op, items, aliases, stock, stock_seq, now, wpc, wcall,
                   tvars, sent, done>>

\* rx.recv_timeout returns Err(Disconnected), which it does when the
\* channel is empty and its sender dropped: panic!, lines 94-96.
CDisconnected ==
    /\ pc = "recv"
    /\ queue = <<>>
    /\ ~conn
    /\ pc' = "stopped"
    /\ UNCHANGED <<op, items, aliases, stock, stock_seq, now, wpc, wcall,
                   cur, queue, since, waited, cvars>>

NextChan ==
    CSend \/ CInputEnds \/ TRecvMode \/ TRecvLine \/ TDone \/ Timeout \/ CDisconnected

SpecChan == InitChan /\ [][NextChan]_vars

\* main is a thread that runs: a recv_timeout whose channel holds a scan
\* string or has lost its sender returns, and a handler returns.
SpecChanLive ==
    /\ SpecChan
    /\ WF_vars(TRecvMode)
    /\ WF_vars(TRecvLine)
    /\ WF_vars(TDone)
    /\ WF_vars(CDisconnected)

\* ------------------------------------------------------------ properties
\* A step of the interpreter is a reachable state, a scan string and one
\* outcome of handle_line there; stock is the table before the step and
\* o.d.stock the table after it.
CallSet(o) == {o.d.calls[k] : k \in 1..Len(o.d.calls)}

\* The calls of fn that reached the database in the outcome o.
StockCalls(o, fn) == {c \in CallSet(o) : c.fn = fn /\ c.res # "error"}

Fresh(d) == [d EXCEPT !.calls = <<>>]

ItemIds == 1..Len(items)

UnitsOf(stk, item_id) == {u \in stk : u.item_id = item_id}

\* stk2 is stk with exactly the unit u replaced by v
Replaced(stk, stk2, u, v) == u \in stk /\ v \notin stk /\ stk2 = (stk \ {u}) \cup {v}

\* v is u with removed_dt set and nothing else changed
MarkedRemoved(u, v) ==
    u.removed_dt = NULL /\ v.removed_dt # NULL /\ v = [u EXCEPT !.removed_dt = v.removed_dt]

\* v is u with opened_dt set and nothing else changed
MarkedOpened(u, v) ==
    u.opened_dt = NULL /\ v.opened_dt # NULL /\ v = [u EXCEPT !.opened_dt = v.opened_dt]

\* C1: in every state the interpreter reaches, every item has at most one
\* unit with opened_dt set and removed_dt unset.
C1_AtMostOneOpen ==
    \A i \in ItemIds : Cardinality(IsOpen(stock, i)) <= 1

\* An item with an open unit and a further unopened unit, in mode Open:
\* the next scan of its barcode asks to open a second unit.
C1_Witness ==
    /\ op = "Open"
    /\ \E i \in ItemIds : IsOpen(stock, i) # {} /\ Unopened(stock, i) # {}

\* C2: with two concurrent writers, two open_from_stock calls on the same
\* item never both succeed, and two remove_from_stock calls that both
\* succeed have removed two distinct units.
C2_ConcurrentOpsAtomic ==
    (\A w \in Writers : wpc[w] = "done" /\ wcall[w].res = "ok")
    => /\ ~(/\ wcall[1].fn = "open_from_stock"
            /\ wcall[2].fn = "open_from_stock"
            /\ wcall[1].item = wcall[2].item)
       /\ (/\ wcall[1].fn = "remove_from_stock"
           /\ wcall[2].fn = "remove_from_stock")
          => /\ wcall[1].rows # {}
             /\ wcall[2].rows # {}
             /\ wcall[1].rows \cap wcall[2].rows = {}

\* C3: a unit whose removed_dt is set is never changed again by any step,
\* and an opened_dt that is set is never cleared or overwritten; no unit
\* is deleted.
C3_Lifecycle ==
    [][\A u \in stock :
           /\ u.removed_dt # NULL => u \in stock'
           /\ u.opened_dt # NULL
              => \E v \in stock' : v.id = u.id /\ v.opened_dt = u.opened_dt]_vars

\* A removed unit that was opened before, and a write after its removal.
C3_Witness ==
    \E u \in stock : u.opened_dt # NULL /\ u.removed_dt # NULL /\ now > u.removed_dt

\* C4: remove_from_stock without a stock id removes, among the units of
\* the item that are unopened and not removed, one with the least
\* added_dt and changes nothing else; without such a unit it answers
\* NotInStock and changes nothing, so an open unit stays open.  A second
\* removal takes a unit that is not older than the first.
C4_RemoveOldestUnopened ==
    \A b \in Barcodes : \A o \in handle_line(CurDb, op, b) :
        \A c \in StockCalls(o, "remove_from_stock") :
            LET cand == Unopened(stock, c.item)
            IN  /\ c.unit = NoId
                /\ IF cand = {}
                   THEN c.res = NotInStock /\ o.d.stock = stock
                   ELSE /\ c.res = "ok"
                        /\ \E u \in cand : \E v \in o.d.stock :
                               /\ \A q \in cand : u.added_dt <= q.added_dt
                               /\ MarkedRemoved(u, v)
                               /\ Replaced(stock, o.d.stock, u, v)
                               /\ \A o2 \in handle_line(Fresh(o.d), op, b) :
                                      \A c2 \in StockCalls(o2, "remove_from_stock") :
                                          c2.res = "ok"
                                          => \E u2 \in Unopened(o.d.stock, c.item) :
                                                 /\ u2.added_dt >= u.added_dt
                                                 /\ u2.id # u.id
                                                 /\ u2 \notin o2.d.stock

\* In mode Remove an item has two unopened units added at t1 < t2 and an
\* open unit is not among them; the scan removes the unit added at t1.
C4_Witness ==
    /\ op = "Remove"
    /\ \E b \in Barcodes : \E o \in handle_line(CurDb, op, b) :
           \E c \in StockCalls(o, "remove_from_stock") :
               \E u1, u2 \in Unopened(stock, c.item) :
                   /\ u1.added_dt < u2.added_dt
                   /\ c.res = "ok"
                   /\ u1 \notin o.d.stock
                   /\ u2 \in o.d.stock

\* C5: for an item without an open unit, open_from_stock sets opened_dt on
\* one unit with the least added_dt among the item's unopened, not removed
\* units and changes nothing else; without such a unit it answers
\* NotInStock and changes nothing.
C5_OpenOldestUnopened ==
    \A b \in Barcodes : \A o \in handle_line(CurDb, op, b) :
        \A c \in StockCalls(o, "open_from_stock") :
            LET cand == Unopened(stock, c.item)
            IN  IsOpen(stock, c.item) = {}
                => IF cand = {}
                   THEN c.res = NotInStock /\ o.d.stock = stock
                   ELSE /\ c.res = "ok"
                        /\ \E u \in cand : \E v \in o.d.stock :
                               /\ \A q \in cand : u.added_dt <= q.added_dt
                               /\ MarkedOpened(u, v)
                               /\ Replaced(stock, o.d.stock, u, v)

\* In mode Open an item without an open unit has two unopened units added
\* at different times; the scan opens the older one.
C5_Witness ==
    /\ op = "Open"
    /\ \E b \in Barcodes : \E o \in handle_line(CurDb, op, b) :
           \E c \in StockCalls(o, "open_from_stock") :
               \E u1, u2 \in Unopened(stock, c.item) :
                   /\ IsOpen(stock, c.item) = {}
                   /\ u1.added_dt < u2.added_dt
                   /\ c.res = "ok"
                   /\ u1 \notin o.d.stock
                   /\ u2 \in o.d.stock

\* C6: for an item with an open unit, open_from_stock answers AlreadyOpen
\* and changes nothing, whatever unopened units the item has; a scan in
\* mode Open that opened a unit, repeated, answers AlreadyOpen and
\* changes nothing.
C6_AlreadyOpen ==
    \A b \in Barcodes : \A o \in handle_line(CurDb, op, b) :
        \A c \in StockCalls(o, "open_from_stock") :
            /\ IsOpen(stock, c.item) # {} => c.res = AlreadyOpen /\ o.d.stock = stock
            /\ c.res = "ok"
               => \A o2 \in handle_line(Fresh(o.d), op, b) :
                      /\ o2.d.stock = o.d.stock
                      /\ \A c2 \in StockCalls(o2, "open_from_stock") : c2.res = AlreadyOpen

\* In mode Open an item has an open unit and an unopened one; the scan of
\* its barcode is answered AlreadyOpen.
C6_Witness ==
    /\ op = "Open"
    /\ \E b \in Barcodes : \E o \in handle_line(CurDb, op, b) :
           \E c \in StockCalls(o, "open_from_stock") :
               /\ IsOpen(stock, c.item) # {}
               /\ Unopened(stock, c.item) # {}
               /\ c.res = AlreadyOpen

\* C7: finish_from_stock sets removed_dt on an open unit of the item with
\* the least opened_dt and changes nothing else, an unopened unit least of
\* all; without an open unit it answers NotOpen and changes nothing.  After
\* a finish that succeeded, a further finish of the item answers NotOpen.
C7_FinishOpenUnit ==
    \A b \in Barcodes : \A o \in handle_line(CurDb, op, b) :
        \A c \in StockCalls(o, "finish_from_stock") :
            LET opened == IsOpen(stock, c.item)
            IN  IF opened = {}
                THEN c.res = NotOpen /\ o.d.stock = stock
                ELSE /\ c.res = "ok"
                     /\ \E u \in opened : \E v \in o.d.stock :
                            /\ \A q \in opened : u.opened_dt <= q.opened_dt
                            /\ MarkedRemoved(u, v)
                            /\ Replaced(stock, o.d.stock, u, v)
                     /\ Unopened(o.d.stock, c.item) = Unopened(stock, c.item)
                     /\ \A o2 \in handle_line(Fresh(o.d), op, b) :
                            /\ o2.d.stock = o.d.stock
                            /\ \A c2 \in StockCalls(o2, "finish_from_stock") :
                                   c2.res = NotOpen

\* In mode Finish an item has an open unit and an unopened one; the scan
\* finishes the open unit.
C7_Witness ==
    /\ op = "Finish"
    /\ \E b \in Barcodes : \E o \in handle_line(CurDb, op, b) :
           \E c \in StockCalls(o, "finish_from_stock") :
               \E u \in IsOpen(stock, c.item) :
                   /\ Unopened(stock, c.item) # {}
                   /\ c.res = "ok"
                   /\ u \notin o.d.stock

\* C8: remove_from_stock with a stock id sets removed_dt on that unit, and
\* changes nothing else, if and only if the unit is a unit of the given
\* item and is not removed, opened or not; otherwise it answers NotInStock
\* and changes nothing.  A label code that makes no such call changes
\* nothing.
C8_RemoveByUnitId ==
    \A l \in LabelCodes : \A o \in handle_line(CurDb, op, l) :
        /\ StockCalls(o, "remove_from_stock") = {} => o.d.stock = stock
        /\ \A c \in StockCalls(o, "remove_from_stock") :
               LET hit == {u \in stock : u.id = c.unit[1] /\ u.item_id = c.item
                                             /\ u.removed_dt = NULL}
               IN  /\ c.unit # NoId
                   /\ IF hit = {}
                      THEN c.res = NotInStock /\ o.d.stock = stock
                      ELSE /\ c.res = "ok"
                           /\ \E u \in hit : \E v \in o.d.stock :
                                  MarkedRemoved(u, v) /\ Replaced(stock, o.d.stock, u, v)

\* A label code names an item and an available unit of another item: the
\* call is answered NotInStock; and a label code of an opened unit of its
\* item removes it.
C8_Witness ==
    /\ \E l \in LabelCodes : \E o \in handle_line(CurDb, op, l) :
           \E c \in StockCalls(o, "remove_from_stock") :
               /\ \E u \in stock : u.id = c.unit[1] /\ u.item_id # c.item
                                       /\ u.removed_dt = NULL
               /\ c.res = NotInStock
    /\ \E l \in LabelCodes : \E o \in handle_line(CurDb, op, l) :
           \E c \in StockCalls(o, "remove_from_stock") :
               /\ \E u \in stock : u.id = c.unit[1] /\ u.item_id = c.item
                                       /\ u.opened_dt # NULL /\ u.removed_dt = NULL
               /\ c.res = "ok"

\* C9: for an item without stock units, remove_from_stock and
\* open_from_stock answer NotInStock and finish_from_stock answers NotOpen,
\* and the stock table is unchanged.
C9_EmptyItemFails ==
    \A l \in Barcodes \cup LabelCodes : \A o \in handle_line(CurDb, op, l) :
        \A c \in CallSet(o) :
            (/\ c.fn \in {"remove_from_stock", "open_from_stock", "finish_from_stock"}
             /\ c.res # "error"
             /\ UnitsOf(stock, c.item) = {})
            => /\ o.d.stock = stock
               /\ c.fn = "remove_from_stock" => c.res = NotInStock
               /\ c.fn = "open_from_stock" => c.res = NotInStock
               /\ c.fn = "finish_from_stock" => c.res = NotOpen

\* An item without units while another item has units, in mode Finish: the
\* scan of its barcode is answered NotOpen.
C9_Witness ==
    /\ op = "Finish"
    /\ stock # {}
    /\ \E b \in Barcodes : \E o \in handle_line(CurDb, op, b) :
           \E c \in StockCalls(o, "finish_from_stock") :
               UnitsOf(stock, c.item) = {} /\ c.res = NotOpen

\* The mode of each mode token.
ModeOf(token) ==
    CASE token = <<"?", "?", "?">> -> "None"
      [] token = <<"+", "+", "+">> -> "Register"
      [] token = <<">", ">", ">">> -> "Add"
      [] token = <<"<", "<", "<">> -> "Remove"
      [] token = <<"/", "/", "/">> -> "Open"
      [] token = <<"<", "/", "<">> -> "Finish"

\* C10: a mode token sets op to its mode, makes no call and changes no
\* table; the same token once more leaves op as it is and makes no call.
C10_ModeTokenIdempotent ==
    \A token \in ModeTokens : \A o \in handle_line(CurDb, op, token) :
        /\ o.op = ModeOf(token)
        /\ o.d = CurDb
        /\ \A o2 \in handle_line(o.d, o.op, token) : o2.op = o.op /\ o2.d = CurDb

\* The mode is Finish, set by its token, and the stock is not empty: the
\* token once more finds the mode it sets.
C10_Witness ==
    /\ op = "Finish"
    /\ stock # {}
    /\ \E o \in handle_line(CurDb, op, <<"<", "/", "<">>) : o.op = op

\* What a handler leaves behind and answers, without its scan op.
Effect(o) == [d |-> o.d, res |-> o.res]

\* The tables of a database.
Tables(d) == <<d.items, d.aliases, d.stock, d.stock_seq, d.now>>

\* C11: for a scan string that is not a mode token (a barcode, the custom
\* token, a label code), whatever the scan op and however the handling
\* ends, the scan op after it is the scan op before it.
C11_ModeKeptByOtherScans ==
    \A line \in Lines \ ModeTokens : \A o \in handle_line(CurDb, op, line) :
        o.op = op

\* In a scan op other than None a barcode's handling fails, another
\* barcode's handling changes the tables, and the custom token is handled.
C11_Witness ==
    /\ op # "None"
    /\ \E b \in Barcodes : \E o \in handle_line(CurDb, op, b) : o.res # "ok"
    /\ \E b \in Barcodes : \E o \in handle_line(CurDb, op, b) :
           o.res = "ok" /\ Tables(o.d) # Tables(CurDb)
    /\ \E o \in handle_line(CurDb, op, CustomToken) : o.res # "ok"

\* C12: a label code of item i and unit u is handled the same in every scan
\* op: the only calls are query_item_by_id(i) and, when that finds the
\* item, remove_from_stock(i, Some(u)); it is never looked up as a barcode.
C12_LabelCodeInEveryMode ==
    \A i \in 1..MaxItems : \A u \in 1..MaxUnits :
        LET l == label_code(i, u)
            here == handle_line(CurDb, op, l)
        IN  /\ \A m \in ScanOps :
                   {Effect(o) : o \in handle_line(CurDb, m, l)} = {Effect(o) : o \in here}
            /\ \A o \in here :
                   /\ Len(o.d.calls) >= 1
                   /\ o.d.calls[1].fn = "query_item_by_id"
                   /\ o.d.calls[1].item = i
                   /\ o.d.calls[1].res = "some"
                      => /\ Len(o.d.calls) = 2
                         /\ o.d.calls[2].fn = "remove_from_stock"
                         /\ o.d.calls[2].item = i
                         /\ o.d.calls[2].unit = SomeId(u)
                   /\ o.d.calls[1].res # "some" => Len(o.d.calls) = 1

\* In the scan op Add the label code of an available unit of an item is
\* scanned and the unit is removed.
C12_Witness ==
    /\ op = "Add"
    /\ \E i \in 1..MaxItems : \E u \in 1..MaxUnits :
           \E o \in handle_line(CurDb, op, label_code(i, u)) :
               \E c \in StockCalls(o, "remove_from_stock") :
                   c.res = "ok" /\ Cardinality(o.d.stock \ stock) = 1

\* The items a code stands for in the tables of the state: the items whose
\* ean is the code, or the target of the alias of the code if it has one.
CodeOf(b) ==
    LET al == {a \in aliases : a.ean = b}
    IN  IF al = {} THEN b ELSE (CHOOSE a \in al : TRUE).alias_for

Resolved(b) == {items[i] : i \in {j \in ItemIds : items[j].ean = CodeOf(b)}}

\* The calls of the outcome o that are not calls of the functions fns.
OtherCalls(o, fns) == {c \in CallSet(o) : c.fn \notin fns}

\* C15: in the scan op None a barcode is only looked up: the one call is
\* query_item_by_ean, and no table changes.
C15_IdleScanReadsOnly ==
    op = "None"
    => \A b \in Barcodes : \A o \in handle_line(CurDb, op, b) :
           /\ Tables(o.d) = Tables(CurDb)
           /\ Len(o.d.calls) = 1
           /\ o.d.calls[1].fn = "query_item_by_ean"
           /\ o.d.calls[1].code = b

\* In the scan op None one barcode has an item with stock and another has
\* no item.
C15_Witness ==
    /\ op = "None"
    /\ \E b \in Barcodes : \E x \in Resolved(b) : UnitsOf(stock, x.id) # {}
    /\ \E b \in Barcodes : Resolved(b) = {}
    /\ \E b \in Barcodes : \E o \in handle_line(CurDb, op, b) :
           o.d.calls[1].res = "none"

\* C16: in the scan ops Remove, Open and Finish a barcode without an item
\* makes no call after the lookup of the item, changes no table, and its
\* handling ends with Ok unless the lookup itself failed.
C16_UnresolvedIsNoOp ==
    op \in {"Remove", "Open", "Finish"}
    => \A b \in Barcodes :
           Resolved(b) = {}
           => \A o \in handle_line(CurDb, op, b) :
                  /\ Tables(o.d) = Tables(CurDb)
                  /\ OtherCalls(o, {"query_item_by_ean"}) = {}
                  /\ Len(o.d.calls) = 1
                  /\ o.d.calls[1].res # "error" => o.res = "ok"

\* In the scan op Remove a barcode has no item while another item has an
\* available unit, and the scan of the barcode ends with Ok.
C16_Witness ==
    /\ op = "Remove"
    /\ \E u \in stock : u.removed_dt = NULL
    /\ \E b \in Barcodes :
           /\ Resolved(b) = {}
           /\ \E o \in handle_line(CurDb, op, b) : o.res = "ok"

\* C17: in the scan op Register a barcode that has an item, by its ean or
\* by an alias, makes no call but the lookup of the item (no lookup of a
\* name, no create_item, no create_alias) and changes no table.
C17_RegisterKnownIsNoOp ==
    op = "Register"
    => \A b \in Barcodes :
           Resolved(b) # {}
           => \A o \in handle_line(CurDb, op, b) :
                  /\ Tables(o.d) = Tables(CurDb)
                  /\ OtherCalls(o, {"query_item_by_ean"}) = {}
                  /\ o.d.calls[1].res # "error" => o.res = "ok"

\* In the scan op Register one barcode has an item by its ean and another
\* by an alias, and the scan of the aliased one ends with Ok.
C17_Witness ==
    /\ op = "Register"
    /\ \E b \in Barcodes : \E x \in Resolved(b) : x.ean = b
    /\ \E b \in Barcodes :
           /\ \E a \in aliases : a.ean = b
           /\ Resolved(b) # {}
           /\ \E o \in handle_line(CurDb, op, b) : o.res = "ok"

\* The items of the state whose name is the name, letter case apart.
NameMatches(name) == {x \in ItemSet(CurDb) : lower(x.name) = lower(name)}

\* The outcomes of the scan of b in which register found an item of the name
\* it was given.
Collisions(b) ==
    {o \in handle_line(CurDb, op, b) :
         \E c \in CallSet(o) : c.fn = "query_item_by_name" /\ c.res = "some"}

\* The name register asked for in the outcome o.
NameAsked(o) == (CHOOSE c \in CallSet(o) : c.fn = "query_item_by_name").name

\* C18: when register, for a barcode without an item, finds an item of the
\* same name (letter case apart), no item is created; an alias is created
\* only from the barcode to the ean of such an item, and only one; with the
\* operator's yes it is created and with the operator's no the handling ends
\* with the error of the unresolved conflict and no table changed; if the
\* item of the name has no ean the handling ends with the error of the
\* collision with a custom item and no table changed.
C18_NameCollisionMakesAlias ==
    op \in {"Register", "Add"}
    => \A b \in Barcodes : \A o \in Collisions(b) :
           LET coded == {x \in NameMatches(NameAsked(o)) : x.ean # NoEan}
           IN  /\ Resolved(b) = {}
               /\ NameMatches(NameAsked(o)) # {}
               /\ o.d.items = items
               /\ OtherCalls(o, {"query_item_by_ean", "lookup", "query_item_by_name",
                                 "create_alias", "add_to_stock"}) = {}
               /\ o.d.aliases # aliases
                  => \E x \in coded :
                         /\ Alias(b, x.ean) \notin aliases
                         /\ o.d.aliases = aliases \cup {Alias(b, x.ean)}
               /\ o.res \in {Unresolved, CustomCollision} => Tables(o.d) = Tables(CurDb)
               /\ coded = {} => o.res = CustomCollision
               /\ o.res = CustomCollision
                  => \E x \in NameMatches(NameAsked(o)) : x.ean = NoEan
               /\ coded # {}
                  => /\ \E o2 \in Collisions(b) :
                            NameAsked(o2) = NameAsked(o) /\ o2.res = Unresolved
                     /\ \E o2 \in Collisions(b) :
                            NameAsked(o2) = NameAsked(o) /\ o2.d.aliases # aliases
               /\ (op = "Register" /\ o.res = "ok") => o.d.aliases # aliases
               /\ (op = "Register" /\ o.res # "ok") => Tables(o.d) = Tables(CurDb)

\* In the scan op Register a barcode without an item gets a name that
\* differs in letter case from the name of an item with an ean, and the
\* alias is created; with another name, that of a custom item, letter case
\* apart, its handling ends with the error of the collision.
C18_Witness ==
    /\ op = "Register"
    /\ \E b \in Barcodes : \E o \in Collisions(b) :
           /\ \E x \in NameMatches(NameAsked(o)) : x.ean # NoEan /\ x.name # NameAsked(o)
           /\ o.res = "ok"
           /\ Cardinality(o.d.aliases) = Cardinality(aliases) + 1
    /\ \E b \in Barcodes : \E o \in Collisions(b) :
           /\ \E x \in NameMatches(NameAsked(o)) : x.ean = NoEan /\ x.name # NameAsked(o)
           /\ o.res = CustomCollision

\* C19: in the scan op Add a scan adds at most one stock row and changes no
\* other; the row is new, unopened and not removed.  For a barcode with an
\* item the row is a unit of that item, no item or alias is created, and it
\* is added whenever the handling ends with Ok.  For a barcode without an
\* item, register runs first and the row is a unit of the item register
\* created for the barcode or of the item it made the barcode an alias of;
\* when register ends with an error no row is added.
C19_AddModeAddsOneUnit ==
    op = "Add"
    => \A b \in Barcodes : \A o \in handle_line(CurDb, op, b) :
           LET new == o.d.stock \ stock
               made == {o.d.items[k] : k \in (Len(items) + 1)..Len(o.d.items)}
               aliased == {x \in ItemSet(CurDb) :
                               Alias(b, x.ean) \in o.d.aliases \ aliases}
           IN  /\ stock \subseteq o.d.stock
               /\ Cardinality(new) <= 1
               /\ o.res = "ok" <=> new # {}
               /\ \A u \in new :
                      /\ u.opened_dt = NULL
                      /\ u.removed_dt = NULL
                      /\ \A v \in stock : v.id # u.id
                      /\ \E x \in Resolved(b) \cup made \cup aliased : u.item_id = x.id
               /\ Resolved(b) # {}
                  => /\ o.d.items = items
                     /\ o.d.aliases = aliases
                     /\ OtherCalls(o, {"query_item_by_ean", "add_to_stock"}) = {}
               /\ Resolved(b) = {}
                  => /\ Cardinality(made) + Cardinality(aliased) <= 1
                     /\ \A x \in made : x.ean = b
                     /\ new # {} => made \cup aliased # {}
                     /\ o.d.calls[1].res # "error"
                        => \E c \in CallSet(o) : c.fn = "lookup"

\* In the scan op Add one barcode has an item and its scan adds a unit of
\* it, and another barcode has no item and its scan makes it an alias of
\* the first and adds a unit of the first item.
C19_Witness ==
    /\ op = "Add"
    /\ \E b \in Barcodes : \E o \in handle_line(CurDb, op, b) :
           /\ Resolved(b) # {}
           /\ o.res = "ok"
           /\ \E u \in o.d.stock \ stock : \E x \in Resolved(b) : u.item_id = x.id
    /\ \E b \in Barcodes : \E o \in handle_line(CurDb, op, b) :
           /\ Resolved(b) = {}
           /\ o.res = "ok"
           /\ o.d.aliases # aliases
           /\ o.d.stock # stock

\* The items query_item_by_ean returns for a code in the database d.
Returned(d, code) == {r.val : r \in {q \in query_item_by_ean(Fresh(d), code) : q.ok}}

\* The codes the tables do not know.
Strangers == {<<"1">>, <<"1", "1", "1">>, <<"m">>}

\* C20: for every alias from A to B and the item X whose ean is B,
\* query_item_by_ean(A) and query_item_by_ean(B) return X and only X, and
\* the ean of X is not A; this holds in the database a create_alias(A, B)
\* call leaves, and in every state.  The item returned for a code has the
\* code or the target of the code's alias as its ean, and a code that is
\* neither the ean of an alias nor the ean of an item has no item.
C20_AliasResolves ==
    /\ \A a \in aliases :
           LET xs == {x \in ItemSet(CurDb) : x.ean = a.alias_for}
           IN  /\ Cardinality(xs) = 1
               /\ Returned(CurDb, a.ean) = xs
               /\ Returned(CurDb, a.alias_for) = xs
               /\ \A x \in xs : x.ean # a.ean
    /\ \A b \in Barcodes : \A o \in handle_line(CurDb, op, b) :
           \A c \in CallSet(o) :
               (c.fn = "create_alias" /\ c.res = "ok")
               => LET xs == {x \in ItemSet(o.d) : x.ean = c.name}
                  IN  /\ c.code = b
                      /\ Cardinality(xs) = 1
                      /\ Returned(o.d, c.code) = xs
                      /\ Returned(o.d, c.name) = xs
                      /\ \A x \in xs : x.ean # c.code
    /\ \A code \in Barcodes \cup Strangers \cup LabelCodes :
           /\ \A x \in Returned(CurDb, code) \ {NoItem} :
                  x.ean \in {code} \cup {a.alias_for : a \in {y \in aliases : y.ean = code}}
           /\ ((\A a \in aliases : a.ean # code) /\ (\A x \in ItemSet(CurDb) : x.ean # code))
              => Returned(CurDb, code) = {NoItem}

\* An alias exists, its target is the ean of an item with stock, and a
\* further code has neither an alias nor an item.
C20_Witness ==
    /\ \E a \in aliases : \E x \in ItemSet(CurDb) :
           /\ x.ean = a.alias_for
           /\ UnitsOf(stock, x.id) # {}
           /\ Returned(CurDb, a.ean) = {x}
    /\ \E code \in Strangers : Returned(CurDb, code) = {NoItem}

\* C13: when main has been blocked in recv_timeout for IDLE_TIMEOUT and no
\* scan string has arrived, the step that follows leaves the scan op None,
\* whatever it was, changes no table and hands no scan string to a handler.
C13_TimeoutResetsModeOnly ==
    [][(pc = "recv" /\ queue = <<>> /\ waited >= IDLE_TIMEOUT)
       => /\ op' = "None"
          /\ pc' = "recv"
          /\ cur' = cur
          /\ <<items, aliases, stock, stock_seq, now>>' =
                 <<items, aliases, stock, stock_seq, now>>]_vars

\* The scan op is Add, the stock is not empty, and main has been blocked in
\* recv_timeout for IDLE_TIMEOUT without a scan string.
C13_Witness ==
    /\ op = "Add"
    /\ stock # {}
    /\ pc = "recv"
    /\ queue = <<>>
    /\ waited >= IDLE_TIMEOUT

\* C14: a barcode that arrived IDLE_TIMEOUT or more after the scan string
\* before it is handled in the scan op None.
C14_NoStaleMode ==
    (/\ pc = "handle"
     /\ cur.line \in Barcodes
     /\ cur.gap >= IDLE_TIMEOUT)
    => op = "None"

\* The outcomes of the scan of b in which the lookup of the name failed.
LookupFailed(b) ==
    {o \in handle_line(CurDb, op, b) :
         \E c \in CallSet(o) : c.fn = "lookup" /\ c.res = "error"}

\* C21: in the scan ops Register and Add, when the lookup of the name of a
\* barcode fails, the handling does not end with the error of the lookup,
\* and in one of its outcomes the item is created, from the name the
\* operator typed.
C21_LookupFailureNotFatal ==
    op \in {"Register", "Add"}
    => \A b \in Barcodes :
           /\ \A o \in LookupFailed(b) : o.res # LookupError
           /\ LookupFailed(b) # {}
              => \E o \in LookupFailed(b) :
                     \E c \in CallSet(o) : c.fn = "create_item" /\ c.res = "ok"

\* The outcomes of the custom token in the state.
CustomRuns == handle_line(CurDb, op, CustomToken)

\* The ids of the rows the add_to_stock calls of the outcome o returned.
AddedIds(o) == {c.unit[1] : c \in {x \in CallSet(o) : x.fn = "add_to_stock" /\ x.res = "ok"}}

\* The print call of the outcome o, if it has one.
PrintCalls(o) == {c \in CallSet(o) : c.fn = "print_custom_item_labels"}

UnitCounts == 1..2

C26_NamesDistinct ==
    \A i, j \in ItemIds :
        i # j => lower(items[i].name) # lower(items[j].name)

\* Ids of one and of several digits, up to the greatest i32.
RoundTripIds == {1, 2, 10, 305, I32_MAX}

\* The outcomes of a scan in which no call failed to reach the database.
Reached(line) ==
    {o \in handle_line(CurDb, op, line) : \A c \in CallSet(o) : c.res # "error"}

\* C27: the label code of an item id and a unit id is no mode token and not
\* the custom token, and parse_custom_code gives back the two ids.  The
\* scan of the label code of a unit of the stock table, in any scan op,
\* sets removed_dt of exactly that unit if it is not removed, and changes no
\* table if it is.
C27_LabelCodeRoundTrip ==
    /\ \A i \in RoundTripIds : \A u \in RoundTripIds :
           LET l == label_code(i, u)
           IN  /\ l \notin ModeTokens
               /\ ScanOp_from_str(l) = "Err"
               /\ l # CustomToken
               /\ parse_custom_code(l) = [some |-> TRUE, item_id |-> i, stock_id |-> u]
    /\ \A u \in stock :
           LET l == label_code(u.item_id, u.id)
           IN  /\ Reached(l) # {}
               /\ \A o \in handle_line(CurDb, op, l) :
                      /\ o.d.items = items /\ o.d.aliases = aliases
                      /\ u.removed_dt # NULL => o.d.stock = stock
               /\ \A o \in Reached(l) :
                      u.removed_dt = NULL
                      => /\ o.res = "ok"
                         /\ \E v \in o.d.stock :
                                MarkedRemoved(u, v) /\ Replaced(stock, o.d.stock, u, v)

\* A unit whose id differs from the id of its item is removed and another
\* unit is not: the label code of the one changes nothing, that of the
\* other removes it.
C27_Witness ==
    /\ \E u \in stock : u.removed_dt # NULL /\ u.id # u.item_id
    /\ \E u \in stock :
           /\ u.removed_dt = NULL
           /\ \E o \in Reached(label_code(u.item_id, u.id)) : u \notin o.d.stock

\* The codes of the items table.
ItemCodes == {items[i].ean : i \in ItemIds} \ {NoEan}

\* C28: no alias has the code of an item as its key, the target of every
\* alias is the code of an item, and no target of an alias is the key of an
\* alias.
C28_AliasTables ==
    /\ \A a \in aliases : a.ean \notin ItemCodes
    /\ \A a \in aliases : a.alias_for \in ItemCodes
    /\ \A a \in aliases : \A b \in aliases : a.alias_for # b.ean

\* An alias, and beside its item an item without a code.
C28_Witness ==
    /\ aliases # {}
    /\ \E i \in ItemIds : items[i].ean = NoEan

\* The functions of db.rs that change the stock table.
EngineFns == {"add_to_stock", "remove_from_stock", "open_from_stock", "finish_from_stock"}

\* The calls of the stock functions that succeeded in the outcome o.
EngineOk(o) == {c \in CallSet(o) : c.fn \in EngineFns /\ c.res = "ok"}

\* The ids of the rows of a stock table.
UnitIds(stk) == {u.id : u \in stk}

\* C29: the scan of a barcode or a label code makes at most one stock call
\* that succeeds.  That call changes one row, of its item: add_to_stock
\* inserts one row, remove_from_stock and finish_from_stock set removed_dt
\* of one row, open_from_stock sets opened_dt of one row; no other field
\* and no row of another item changes.  No row is deleted.  A scan without
\* such a call, the registration of an item or an alias among them, leaves
\* the stock table as it is.  The custom item flow changes no row it did
\* not insert.
C29_OneUnitOneField ==
    /\ \A line \in Barcodes \cup LabelCodes : \A o \in handle_line(CurDb, op, line) :
           /\ Cardinality(EngineOk(o)) <= 1
           /\ UnitIds(stock) \subseteq UnitIds(o.d.stock)
           /\ EngineOk(o) = {} => o.d.stock = stock
           /\ \A c \in EngineOk(o) :
                  /\ \A u \in stock : u.item_id # c.item => u \in o.d.stock
                  /\ c.fn = "add_to_stock"
                     => \E v \in o.d.stock :
                            /\ v.id \notin UnitIds(stock)
                            /\ v.item_id = c.item
                            /\ o.d.stock = stock \cup {v}
                  /\ c.fn \in {"remove_from_stock", "finish_from_stock"}
                     => \E u \in stock : \E v \in o.d.stock :
                            /\ u.item_id = c.item
                            /\ MarkedRemoved(u, v)
                            /\ Replaced(stock, o.d.stock, u, v)
                  /\ c.fn = "open_from_stock"
                     => \E u \in stock : \E v \in o.d.stock :
                            /\ u.item_id = c.item
                            /\ MarkedOpened(u, v)
                            /\ Replaced(stock, o.d.stock, u, v)
    /\ \A o \in CustomRuns :
           /\ stock \subseteq o.d.stock
           /\ Cardinality(o.d.stock \ stock) \in {0, Cardinality(AddedIds(o))}

\* In the scan op Open a unit of one item is opened while another item has
\* a unit and an alias exists.
C29_Witness ==
    /\ op = "Open"
    /\ aliases # {}
    /\ \E b \in Barcodes : \E o \in handle_line(CurDb, op, b) :
           \E c \in EngineOk(o) : \E u \in stock : u.item_id # c.item

\* The scan strings main has received and not handled to the end, oldest
\* first: the one in its handler and those in the channel.
Pending == (IF pc = "handle" THEN <<cur>> ELSE <<>>) \o queue

\* C24: the scan strings main has yet to finish are, in this order, the
\* scan strings the input thread sent after the one main handled last:
\* none is lost, none is there twice, none is out of its place, whether it
\* was sent while main waited or while main handled an earlier one; and
\* main is in the handler of one scan string only, the one that follows
\* the last handled.
C24_ArrivalOrder ==
    /\ done + Len(Pending) = Len(sent)
    /\ \A k \in 1..Len(Pending) :
           /\ Pending[k].n = done + k
           /\ Pending[k].line = sent[done + k]
    /\ pc = "handle" => cur.n = done + 1

\* main handles the first scan string while the second and the third, sent
\* meanwhile, are in the channel.
C24_Witness ==
    /\ pc = "handle"
    /\ cur.n = 1
    /\ Len(queue) = 2
    /\ queue[1].line # queue[2].line

\* C25: main leaves the handler of a scan string, however the handling
\* ended, for the next recv_timeout.
C25_HandlerFailureKeepsLoop ==
    [][pc = "handle" => pc' \in {"handle", "recv"}]_vars

\* C30: main has stopped only if the input thread has ended and every scan
\* string it sent has been handled.
C30_StopsOnlyAfterInputEnds ==
    pc = "stopped" => (~conn /\ queue = <<>> /\ done = Len(sent))

\* Once the input thread has ended, main stops.
InputEndStopsMain == (~conn) ~> (pc = "stopped")

====
